---- MODULE Spec2Model ----
(***************************************************************************)
(* A model of ualBot, a Telegram assistant: src/bot.js is the long-polling *)
(* variant, src/unnamed/part_000 the webhook variant.  One inbound update  *)
(* is dispatched to every listener registered for it (bot.on, bot.onText); *)
(* every async listener then runs as its own task, suspended at each await *)
(* until the external call it waits for returns or fails.                  *)
(***************************************************************************)
EXTENDS Integers, Sequences, FiniteSets, TLC

\* Number of inbound updates delivered in one run.
MaxUpdates == 2

\* The JavaScript value undefined (a missing field, a variable not assigned
\* yet).  A value that may be undefined is held as a sequence: the empty one
\* is undefined and <<s>> is the string s, so that no string is taken for it.
UNDEFINED == <<>>

\* The string s as a value that may be undefined.
Defined(s) == <<s>>

\* The two programs of the repository.
Variants == {"polling", "webhook"}

\* msg.chat of the inbound updates.
Chats ==
  { [id |-> 1, first_name |-> "Ana", username |-> "ana"],
    [id |-> 2, first_name |-> "Bo", username |-> "bo"] }

\* msg.text of the text updates.
Texts ==
  { "hi", "/start", "/help", "/websearch cats", "/websearch", "say /start" }

\* msg.contact.phone_number of the contact updates.
Phones == {"+100", "+200"}

\* The kinds of inbound update: a text message, a shared contact, a photo, or
\* a message carrying none of them (a sticker, say).
UpdateKinds ==
  [kind : {"text"}, chat : Chats, text : { Defined(t) : t \in Texts },
   phone : {UNDEFINED}]
    \cup [kind : {"contact"}, chat : Chats, text : {UNDEFINED},
          phone : { Defined(n) : n \in Phones }]
    \cup [kind : {"photo", "other"}, chat : Chats, text : {UNDEFINED},
          phone : {UNDEFINED}]

\* The inbound updates: chat 1 sends every kind of update; chat 2 sends a
\* plain text, a '/start', its contact or a message carrying none of them.
InboundUpdates ==
  { upd \in UpdateKinds :
      upd.chat.id = 2 =>
        \/ upd.kind = "text" /\ upd.text \in {Defined("hi"), Defined("/start")}
        \/ upd.kind = "contact" /\ upd.phone = Defined("+100")
        \/ upd.kind = "other" }

----------------------------------------------------------------------------
\* String helpers: what String.prototype.startsWith/endsWith and
\* RegExp.prototype.exec compute on the patterns the program uses.

\* JavaScript truthiness of a string-or-undefined value.
Truthy(s) == s # UNDEFINED /\ s[1] # ""

\* a || b
JsOr(a, b) == IF Truthy(a) THEN a ELSE b

startsWith(s, p) == Len(s) >= Len(p) /\ SubSeq(s, 1, Len(p)) = p

endsWith(s, p) ==
  Len(s) >= Len(p) /\ SubSeq(s, Len(s) - Len(p) + 1, Len(s)) = p

\* The positions where the literal p occurs in s.
Occurrences(s, p) ==
  { i \in 1..(Len(s) - Len(p) + 1) : SubSeq(s, i, i + Len(p) - 1) = p }

\* /p/.exec(s) # null, for a literal pattern p.
Matches(s, p) == Occurrences(s, p) # {}

Min(S) == CHOOSE x \in S : \A y \in S : x <= y

\* The characters the '.' of a regular expression does not match: the line
\* terminators.  U+2028 and U+2029 are line terminators too; a string of this
\* module holds ASCII characters only, so they occur in none.
LineTerminators == {"\n", "\r"}

\* Where /\/websearch (.+)/ matches: the literal followed by at least one
\* character that is not a line terminator.
SearchMatchAt(s) ==
  { i \in Occurrences(s, "/websearch ") :
      /\ i + 11 <= Len(s)
      /\ SubSeq(s, i + 11, i + 11) \notin LineTerminators }

\* The end of the greedy (.+) group that starts at position from.
GroupEnd(s, from) ==
  LET stops == { j \in from..Len(s) : SubSeq(s, j, j) \in LineTerminators }
  IN  IF stops = {} THEN Len(s) ELSE Min(stops) - 1

\* match[1] of /\/websearch (.+)/.exec(s); UNDEFINED when there is no match.
SearchArg(s) ==
  IF SearchMatchAt(s) = {} THEN UNDEFINED
  ELSE LET i == Min(SearchMatchAt(s))
       IN  Defined(SubSeq(s, i + 11, GroupEnd(s, i + 11)))

----------------------------------------------------------------------------
\* What the external collaborators can answer.

\* model.generateContent(): the call rejects, or resolves to the SDK's result
\* object {response}; response.text() throws on a blocked or malformed
\* completion and yields "" on an empty one.
AIOutcomes ==
  { [ok |-> FALSE],
    [ok |-> TRUE, result |-> [response |-> [blocked |-> TRUE, text |-> ""]]],
    [ok |-> TRUE, result |-> [response |-> [blocked |-> FALSE, text |-> ""]]],
    [ok |-> TRUE,
     result |-> [response |-> [blocked |-> FALSE, text |-> "Answer"]]] }

Item(n) == [title |-> "T" \o n, link |-> "L" \o n]

\* axios.get(customsearch): the call rejects, or resolves to a body that has
\* no items field, an empty item list, or a list of items.
SearchOutcomes ==
  { [ok |-> FALSE],
    [ok |-> TRUE, data |-> [kind |-> "customsearch#search"]],
    [ok |-> TRUE, data |-> [items |-> <<>>]],
    [ok |-> TRUE,
     data |-> [items |-> <<Item("1"), Item("2"), Item("3"), Item("4")>>]] }

\* bot.getFile(): the call rejects, or resolves to a file with a path.
FileOutcomes ==
  { [ok |-> FALSE],
    [ok |-> TRUE, file |-> [file_path |-> "photos/a.png"]],
    [ok |-> TRUE, file |-> [file_path |-> "photos/b.webp"]],
    [ok |-> TRUE, file |-> [file_path |-> "photos/c.jpg"]] }

----------------------------------------------------------------------------
\* The store: the User and Chat collections.

\* The position of the first User document with this chat_id, 0 for none.
FindIndex(us, chatId) ==
  LET hits == { i \in 1..Len(us) : us[i].chat_id = chatId }
  IN  IF hits = {} THEN 0 ELSE Min(hits)

\* User.findOne({chat_id}) found a document.
FindOne(us, chatId) == FindIndex(us, chatId) # 0

\* new User({chat_id, first_name, username}); by names the invocation that
\* made the document (history only).
NewUser(chat, by) ==
  [chat_id |-> chat.id, first_name |-> chat.first_name,
   username |-> chat.username, phone_number |-> UNDEFINED, by |-> by]

\* The update as a replacement of the document by {chat_id, phone_number}.
UpdateOneReplacing(us, chatId, phoneNumber) ==
  LET i == FindIndex(us, chatId)
  IN  IF i = 0 THEN us
      ELSE [us EXCEPT ![i] = [chat_id |-> @.chat_id, first_name |-> "",
                              username |-> "",
                              phone_number |-> phoneNumber, by |-> @.by]]

\* The update with the filter left out: the first document of the collection.
UpdateOneUnfiltered(us, chatId, phoneNumber) ==
  IF Len(us) = 0 THEN us ELSE [us EXCEPT ![1].phone_number = phoneNumber]

\* User.updateOne({chat_id}, {phone_number}): the first match, and no upsert.
UpdateOne(us, chatId, phoneNumber) ==
  LET i == FindIndex(us, chatId)
  IN  IF i = 0 THEN us ELSE [us EXCEPT ![i].phone_number = phoneNumber]

\* new Chat({chat_id, user_input, bot_response}); by as in NewUser.
NewChat(chatId, userInput, botResponse, by) ==
  [chat_id |-> chatId, user_input |-> userInput,
   bot_response |-> botResponse, by |-> by]

----------------------------------------------------------------------------
\* Outbound messages.  The non-ASCII marker glyphs that open the search and
\* image replies are left out of the texts.

\* A bot.sendMessage() call; ok is FALSE when the returned promise rejects
\* (Telegram refuses the message, or cannot be reached), which no handler
\* awaits or catches.
Message(to, kind, text, ok) ==
  [to |-> to, kind |-> kind, text |-> text, ok |-> ok]

\* How a sendMessage() call can end: accepted or refused.
SendOutcomes == BOOLEAN

\* The outcomes of sending text when Telegram's answers are drawn from oks:
\* an empty text is refused in any case.
SendResults(text, oks) == IF text = "" THEN {FALSE} ELSE oks

WelcomeText(v, firstName) ==
  IF v = "polling"
  THEN "Welcome, " \o firstName
         \o "! You can ask questions to this bot. Feel free to drop any questions here"
  ELSE "Welcome, " \o firstName \o "! You can ask me anything."

ContactRequestText(v) ==
  IF v = "polling"
  THEN "To continue chatting, please share your Phone Number by clicking the button next to the typing area."
  ELSE "Please share your phone number by clicking the button below."

WelcomeBackText(v, firstName) ==
  IF v = "polling"
  THEN "Welcome back " \o firstName
         \o "! Please ask a question. I will be happy to assist you!!"
  ELSE "Welcome back, " \o firstName \o "! Ask me anything."

ConfirmText(v) ==
  IF v = "polling"
  THEN "Phone number saved successfully! Now you can start asking questions."
  ELSE "Phone number saved! You can now start chatting."

HelpText ==
  "This bot can perform the following tasks: \n 1. Enter /start to start the bot. \n 2. Type any question to ask. \n 3. Send an image for analysis. \n 4. Before your questions, if you include /websearch you will get top 3 results from the web and their summary. "

\* The fixed message of each handler's catch block.
ErrorText(v, handler) ==
  CASE handler = "Chat" ->
         IF v = "polling"
         THEN "Sorry, I couldn't process your request. Please try again later."
         ELSE "Sorry, I couldn't process your request."
    [] handler = "Search" -> "Error fetching search results."
    [] OTHER -> "Error analyzing the image."

\* The text used in place of a completion the webhook variant cannot read.
FallbackText(handler) ==
  CASE handler = "Chat" -> "Sorry, I couldn't understand that."
    [] handler = "Search" -> "No summary available."
    [] OTHER -> "No description available."

\* The success reply of each handler.
ReplyText(v, handler, results, val) ==
  CASE handler = "Chat" -> val
    [] handler = "Search" ->
         IF v = "polling"
         THEN "Top search results:\n\n" \o results \o "\n\nSummary:\n\n" \o val
         ELSE "Search Results:\n\n" \o results \o "\n\nSummary:\n" \o val
    [] OTHER -> "Image Analysis: " \o val

----------------------------------------------------------------------------
\* Pure steps of the handlers.

RECURSIVE Join(_, _)
\* Array.prototype.join
Join(strs, sep) ==
  IF Len(strs) = 0 THEN ""
  ELSE IF Len(strs) = 1 THEN strs[1]
  ELSE strs[1] \o sep \o Join(Tail(strs), sep)

\* items.slice(0, n)
Slice(items, n) == SubSeq(items, 1, IF Len(items) < n THEN Len(items) ELSE n)

\* The number of results the Search Handler renders.
MaxResults == 3

\* The rendering with the slice left out: every result is shown.
searchResultsUnsliced(items) ==
  Join([k \in 1..Len(items) |-> items[k].title \o "\n" \o items[k].link],
       "\n\n")

\* response.data.items.slice(0, 3).map(title \n link).join(blank line)
searchResults(items) ==
  LET shown == Slice(items, MaxResults)
  IN  Join([k \in 1..Len(shown) |-> shown[k].title \o "\n" \o shown[k].link],
           "\n\n")

\* The inference with the .png test left out.
mimeTypeNoPng(v, path) ==
  IF v = "polling" /\ endsWith(path, ".webp") THEN "image/webp"
  ELSE "image/jpeg"

\* The MIME type inferred from file.file_path.
mimeType(v, path) ==
  IF endsWith(path, ".png") THEN "image/png"
  ELSE IF v = "polling" /\ endsWith(path, ".webp") THEN "image/webp"
  ELSE "image/jpeg"

\* obj?.[0]: the first element of a list, UNDEFINED for a missing list or an
\* empty one.  A missing value is UNDEFINED, a present one <<value>>.
First(obj) ==
  IF obj = UNDEFINED \/ Len(obj[1]) = 0 THEN UNDEFINED ELSE <<obj[1][1]>>

\* obj?.name, in the same representation.
Field(obj, name) ==
  IF obj = UNDEFINED \/ name \notin DOMAIN obj[1] THEN UNDEFINED
  ELSE <<obj[1][name]>>

\* result.candidates?.[0]?.content?.parts?.[0]?.text
CandidateText(result) ==
  Field(First(Field(Field(First(Field(<<result>>, "candidates")), "content"),
                    "parts")),
        "text")

\* What a handler takes from the generateContent() outcome: threw sends it to
\* its catch block, val is the text it goes on with.
Generated(v, handler, outcome) ==
  IF ~outcome.ok THEN [threw |-> TRUE, val |-> UNDEFINED]
  ELSE IF v = "polling"
  THEN IF outcome.result.response.blocked
       THEN [threw |-> TRUE, val |-> UNDEFINED]
       ELSE [threw |-> FALSE, val |-> Defined(outcome.result.response.text)]
  ELSE [threw |-> FALSE,
        val |-> JsOr(CandidateText(outcome.result),
                     Defined(FallbackText(handler)))]

\* History only: did the AI call of an invocation produce a text?  It failed
\* when it was rejected, or came back malformed or with an empty completion.
AIStatus(outcome) ==
  IF outcome.ok /\ ~outcome.result.response.blocked
       /\ outcome.result.response.text # ""
  THEN "text" ELSE "failed"

\* History only: the text the model produced, if any.
AIText(outcome) ==
  IF AIStatus(outcome) = "text"
  THEN Defined(outcome.result.response.text) ELSE UNDEFINED

----------------------------------------------------------------------------
\* Dispatch: TelegramBot.processUpdate() calls the "message" listeners, then
\* the listeners of the message's type, then every onText callback whose
\* pattern matches msg.text.

\* One invocation of a listener, suspended at pc.  items (the search results
\* received) and path (the file path received) are history only.
Task(u, handler, chat, pc, arg) ==
  [upd |-> u, handler |-> handler, chat |-> chat, pc |-> pc, arg |-> arg,
   items |-> <<>>, results |-> "", path |-> UNDEFINED, mime |-> UNDEFINED,
   val |-> UNDEFINED, sent |-> <<>>,
   ai |-> "none", aiText |-> UNDEFINED]

SeqIf(cond, t) == IF cond THEN <<t>> ELSE <<>>

\* bot.on("message"): does the listener go on to the AI call?
ChatRuns(v, text) ==
  IF v = "polling"
  THEN ~(Truthy(text) /\ startsWith(text[1], "/start"))
         /\ ~(Truthy(text) /\ startsWith(text[1], "/websearch"))
         /\ Truthy(text)
  ELSE TRUE

\* bot.onText(/\/help/) is registered by the polling variant only.
HelpRuns(v, text) == v = "polling" /\ Truthy(text) /\ Matches(text[1], "/help")

RegistrationRuns(text) == Truthy(text) /\ Matches(text[1], "/start")

SearchRuns(text) == Truthy(text) /\ SearchArg(text[1]) # UNDEFINED

\* The invocations update number u starts, each run to its first await; ok is
\* the outcome of the send the '/help' listener makes on the way.
Dispatch(v, upd, u, ok) ==
  SeqIf(ChatRuns(v, upd.text), Task(u, "Chat", upd.chat, "generate", upd.text))
  \o SeqIf(upd.kind = "contact",
           Task(u, "Contact", upd.chat, "updateOne", upd.phone))
  \o SeqIf(upd.kind = "photo", Task(u, "Image", upd.chat, "getFile", Defined("image")))
  \o SeqIf(RegistrationRuns(upd.text),
           Task(u, "Registration", upd.chat, "findOne", UNDEFINED))
  \o SeqIf(HelpRuns(v, upd.text),
           [Task(u, "Help", upd.chat, "done", UNDEFINED) EXCEPT
              !.sent = <<Message(upd.chat.id, "help", HelpText, ok)>>])
  \o SeqIf(SearchRuns(upd.text),
           Task(u, "Search", upd.chat, "search", SearchArg(upd.text[1])))

----------------------------------------------------------------------------
\* The state.

VARIABLES
  variant,   \* which of the two programs runs
  updates,   \* the inbound updates delivered so far, in order
  tasks,     \* the listener invocations started so far, in order
  users,     \* the User collection, in insertion order
  turns      \* the Chat collection (the stored conversation turns)

vars == <<variant, updates, tasks, users, turns>>

Init ==
  /\ variant \in Variants
  /\ updates = <<>>
  /\ tasks = <<>>
  /\ users = <<>>
  /\ turns = {}

\* The handler appends a sendMessage() call to what it has sent.
Send(t, kind, text, ok) ==
  [t EXCEPT !.sent = Append(t.sent, Message(t.chat.id, kind, text, ok))]

\* The catch block of the Chat, Search and Image handlers.
Caught(v, t, ok) ==
  [Send(t, "error", ErrorText(v, t.handler), ok) EXCEPT !.pc = "done"]

\* A promise rejection nothing handles: an async listener that rejected, or a
\* sendMessage() call that did.
Unhandled ==
  \E i \in 1..Len(tasks) :
    \/ tasks[i].pc = "rejected"
    \/ \E k \in 1..Len(tasks[i].sent) : ~tasks[i].sent[k].ok

\* The handlers run one after the other: an invocation goes on only when
\* every earlier one has finished.
SuspendedInTurn(i, handlers, pc) ==
  /\ tasks[i].handler \in handlers
  /\ tasks[i].pc = pc
  /\ \A j \in 1..(i - 1) : tasks[j].pc \in {"done", "rejected"}

\* Invocation i waits at pc for its own external call and goes on when that
\* call returns, whatever the other invocations are doing.
Suspended(i, handlers, pc) ==
  /\ tasks[i].handler \in handlers
  /\ tasks[i].pc = pc

\* The webhook route with the response left to the end of the handlers.
AckNone(v) == <<>>

\* The HTTP responses app.post() has sent by the time it returns: the webhook
\* route calls processUpdate() and then sendStatus(200); the polling variant
\* serves no request.
Ack(v) == IF v = "webhook" THEN <<200>> ELSE <<>>

\* One delivered update in the log; known is history only: the chat had a User
\* document when the update arrived.
Delivered(v, upd, us) ==
  [msg |-> upd, responses |-> Ack(v),
   known |-> \E k \in 1..Len(us) : us[k].chat_id = upd.chat.id]

\* An update arrives (a poll result, or a webhook request) and is dispatched.
DeliverFrom(inputs, oks) ==
  /\ Len(updates) < MaxUpdates
  /\ \E upd \in inputs :
       \E ok \in IF HelpRuns(variant, upd.text)
                 THEN SendResults(HelpText, oks) ELSE {TRUE} :
         /\ updates' = Append(updates, Delivered(variant, upd, users))
         /\ tasks' = tasks \o Dispatch(variant, upd, Len(updates) + 1, ok)
  /\ UNCHANGED <<variant, users, turns>>

Deliver == DeliverFrom(InboundUpdates, SendOutcomes)

\* The lookup with the test of its result left out: every chat is taken as new.
AfterFindOneNoTest(v, t, us, ok, sent) ==
  IF ~ok THEN [t EXCEPT !.pc = "rejected"] ELSE [t EXCEPT !.pc = "save"]

\* The Registration Handler once findOne() has returned: the rejection leaves
\* the handler, a miss goes on to create the user, a hit is welcomed back by
\* a send that ends as sent says.
AfterFindOne(v, t, us, ok, sent) ==
  IF ~ok THEN [t EXCEPT !.pc = "rejected"]
  ELSE IF ~FindOne(us, t.chat.id) THEN [t EXCEPT !.pc = "save"]
  ELSE [Send(t, "welcomeBack", WelcomeBackText(v, t.chat.first_name), sent)
          EXCEPT !.pc = "done"]

\* Registration: await User.findOne() returns.
RegistrationLookupWith(i, oks) ==
  /\ Suspended(i, {"Registration"}, "findOne")
  /\ \E ok \in BOOLEAN, sent \in oks :
       tasks' = [tasks EXCEPT ![i] = AfterFindOne(variant, @, users, ok, sent)]
  /\ UNCHANGED <<variant, updates, users, turns>>

RegistrationLookup(i) == RegistrationLookupWith(i, SendOutcomes)

\* Registration: await user.save() returns.
RegistrationSaveWith(i, oks) ==
  /\ Suspended(i, {"Registration"}, "save")
  /\ \E ok \in BOOLEAN :
       IF ~ok
       THEN /\ tasks' = [tasks EXCEPT ![i].pc = "rejected"]
            /\ users' = users
       ELSE /\ users' = Append(users, NewUser(tasks[i].chat, i))
            /\ \E sent1 \in oks, sent2 \in oks :
                 tasks' = [tasks EXCEPT ![i] =
                   [Send(Send(@, "welcome",
                              WelcomeText(variant, @.chat.first_name), sent1),
                         "contactRequest", ContactRequestText(variant), sent2)
                      EXCEPT !.pc = "done"]]
  /\ UNCHANGED <<variant, updates, turns>>

RegistrationSave(i) == RegistrationSaveWith(i, SendOutcomes)

\* Contact: await User.updateOne() returns.
ContactUpdateWith(i, oks) ==
  /\ Suspended(i, {"Contact"}, "updateOne")
  /\ \E ok \in BOOLEAN :
       IF ~ok
       THEN /\ tasks' = [tasks EXCEPT ![i].pc = "rejected"]
            /\ users' = users
       ELSE /\ users' = UpdateOne(users, tasks[i].chat.id, tasks[i].arg)
            /\ \E sent \in oks :
                 tasks' = [tasks EXCEPT ![i] =
                   [Send(@, "confirm", ConfirmText(variant), sent)
                      EXCEPT !.pc = "done"]]
  /\ UNCHANGED <<variant, updates, turns>>

ContactUpdate(i) == ContactUpdateWith(i, SendOutcomes)

\* Search: await axios.get() returns; the results block is rendered.
SearchFetchWith(i, outcomes, oks) ==
  /\ Suspended(i, {"Search"}, "search")
  /\ \E o \in outcomes :
       IF ~o.ok \/ "items" \notin DOMAIN o.data
       THEN \E sent \in oks :
              tasks' = [tasks EXCEPT ![i] = Caught(variant, @, sent)]
       ELSE tasks' = [tasks EXCEPT ![i] =
              [@ EXCEPT !.pc = "generate", !.items = o.data.items,
                        !.results = searchResults(o.data.items)]]
  /\ UNCHANGED <<variant, updates, users, turns>>

SearchFetch(i) == SearchFetchWith(i, SearchOutcomes, SendOutcomes)

\* Image: await bot.getFile() returns; the MIME type is inferred.
ImageGetFileWith(i, outcomes, oks) ==
  /\ Suspended(i, {"Image"}, "getFile")
  /\ \E o \in outcomes :
       IF ~o.ok
       THEN \E sent \in oks :
              tasks' = [tasks EXCEPT ![i] = Caught(variant, @, sent)]
       ELSE tasks' = [tasks EXCEPT ![i] =
               [@ EXCEPT !.pc = "download", !.path = Defined(o.file.file_path),
                        !.mime = Defined(mimeType(variant, o.file.file_path))]]
  /\ UNCHANGED <<variant, updates, users, turns>>

ImageGetFile(i) == ImageGetFileWith(i, FileOutcomes, SendOutcomes)

\* Image: await axios.get(fileUrl) returns.
ImageDownloadWith(i, oks) ==
  /\ Suspended(i, {"Image"}, "download")
  /\ \E ok \in BOOLEAN :
       IF ~ok
       THEN \E sent \in oks :
              tasks' = [tasks EXCEPT ![i] = Caught(variant, @, sent)]
       ELSE tasks' = [tasks EXCEPT ![i].pc = "generate"]
  /\ UNCHANGED <<variant, updates, users, turns>>

ImageDownload(i) == ImageDownloadWith(i, SendOutcomes)

\* Chat, Search, Image: await model.generateContent() returns.
GenerateWith(i, outcomes, oks) ==
  /\ Suspended(i, {"Chat", "Search", "Image"}, "generate")
  /\ \E o \in outcomes :
       LET g == Generated(variant, tasks[i].handler, o)
       IN  IF g.threw
           THEN \E sent \in oks :
                  tasks' = [tasks EXCEPT ![i] =
                    [Caught(variant, @, sent) EXCEPT
                       !.mime = UNDEFINED, !.path = UNDEFINED,
                       !.ai = AIStatus(o), !.aiText = AIText(o)]]
           ELSE tasks' = [tasks EXCEPT ![i] =
                  [@ EXCEPT !.pc = "save", !.val = g.val,
                            !.mime = UNDEFINED, !.path = UNDEFINED,
                            !.ai = AIStatus(o), !.aiText = AIText(o)]]
  /\ UNCHANGED <<variant, updates, users, turns>>

Generate(i) == GenerateWith(i, AIOutcomes, SendOutcomes)

\* The text of the success reply invocation t is about to send.
Reply(v, t) == ReplyText(v, t.handler, t.results, t.val[1])

\* The write as fire-and-forget: the reply is sent whether it succeeds or not.
SaveTurnReplyAnyway(i, oks) ==
  /\ Suspended(i, {"Chat", "Search", "Image"}, "save")
  /\ \E ok \in BOOLEAN :
       /\ turns' = IF ok
                   THEN turns \cup {NewChat(tasks[i].chat.id, tasks[i].arg,
                                            tasks[i].val[1], i)}
                   ELSE turns
       /\ \E sent \in SendResults(Reply(variant, tasks[i]), oks) :
            tasks' = [tasks EXCEPT ![i] =
              [Send(@, "reply", Reply(variant, @), sent) EXCEPT !.pc = "done"]]
  /\ UNCHANGED <<variant, updates, users>>

\* Chat, Search, Image: await new Chat(...).save() returns; the reply is sent.
SaveTurnWith(i, oks) ==
  /\ Suspended(i, {"Chat", "Search", "Image"}, "save")
  /\ \E ok \in BOOLEAN :
       IF ~ok
       THEN /\ \E sent \in oks :
                 tasks' = [tasks EXCEPT ![i] = Caught(variant, @, sent)]
            /\ turns' = turns
       ELSE /\ turns' = turns \cup
                 {NewChat(tasks[i].chat.id, tasks[i].arg, tasks[i].val[1], i)}
            /\ \E sent \in SendResults(Reply(variant, tasks[i]), oks) :
                 tasks' = [tasks EXCEPT ![i] =
                   [Send(@, "reply", Reply(variant, @), sent)
                      EXCEPT !.pc = "done"]]
  /\ UNCHANGED <<variant, updates, users>>

SaveTurn(i) == SaveTurnWith(i, SendOutcomes)

Next ==
  \/ Deliver
  \/ \E i \in 1..Len(tasks) : RegistrationLookup(i)
  \/ \E i \in 1..Len(tasks) : RegistrationSave(i)
  \/ \E i \in 1..Len(tasks) : ContactUpdate(i)
  \/ \E i \in 1..Len(tasks) : SearchFetch(i)
  \/ \E i \in 1..Len(tasks) : ImageGetFile(i)
  \/ \E i \in 1..Len(tasks) : ImageDownload(i)
  \/ \E i \in 1..Len(tasks) : Generate(i)
  \/ \E i \in 1..Len(tasks) : SaveTurn(i)

Spec == Init /\ [][Next]_vars

\* The same program under the updates that reach the User collection or start
\* no handler that writes to it (a '/start', a plain text, a shared contact,
\* a message with none of them), with an AI call that rejects or answers.
UserUpdates ==
  { upd \in InboundUpdates :
      \/ upd.kind = "text" /\ upd.text \in {Defined("/start"), Defined("hi")}
      \/ upd.kind = "contact" /\ upd.phone = Defined("+100")
      \/ upd.kind = "other" }

UserAIOutcomes ==
  { o \in AIOutcomes : ~o.ok \/ AIStatus(o) = "text" }

\* Telegram accepts every message that has a text.
Accepted == {TRUE}

NextUsers ==
  \/ DeliverFrom(UserUpdates, Accepted)
  \/ \E i \in 1..Len(tasks) : RegistrationLookupWith(i, Accepted)
  \/ \E i \in 1..Len(tasks) : RegistrationSaveWith(i, Accepted)
  \/ \E i \in 1..Len(tasks) : ContactUpdateWith(i, Accepted)
  \/ \E i \in 1..Len(tasks) : GenerateWith(i, UserAIOutcomes, Accepted)
  \/ \E i \in 1..Len(tasks) : SaveTurnWith(i, Accepted)

SpecUsers == Init /\ [][NextUsers]_vars

\* The same program under the updates that end in a generated reply: a plain
\* text, a search and a photo from chat 1 and a plain text from chat 2, with
\* each external call either failing or answering in one way.
ReplyUpdates ==
  { upd \in InboundUpdates :
      \/ upd.chat.id = 1 /\ upd.kind = "text"
           /\ upd.text \in {Defined("hi"), Defined("/websearch cats")}
      \/ upd.chat.id = 1 /\ upd.kind = "photo"
      \/ upd.chat.id = 2 /\ upd.kind = "text" /\ upd.text = Defined("hi") }

ReplySearchOutcomes ==
  { o \in SearchOutcomes : ~o.ok \/ ("items" \in DOMAIN o.data /\ o.data.items # <<>>) }

ReplyFileOutcomes ==
  { o \in FileOutcomes : ~o.ok \/ o.file.file_path = "photos/a.png" }

NextReplies ==
  \/ DeliverFrom(ReplyUpdates, Accepted)
  \/ \E i \in 1..Len(tasks) : SearchFetchWith(i, ReplySearchOutcomes, Accepted)
  \/ \E i \in 1..Len(tasks) : ImageGetFileWith(i, ReplyFileOutcomes, Accepted)
  \/ \E i \in 1..Len(tasks) : ImageDownloadWith(i, Accepted)
  \/ \E i \in 1..Len(tasks) : GenerateWith(i, UserAIOutcomes, Accepted)
  \/ \E i \in 1..Len(tasks) : SaveTurnWith(i, Accepted)

SpecReplies == Init /\ [][NextReplies]_vars

\* The longest result list the Search Client returns to the rendering check.
MaxItems == 4

\* The result lists of at most MaxItems items.
ItemLists ==
  UNION { [1..n -> {Item("1"), Item("2"), Item("3")}] : n \in 0..MaxItems }

\* The rendering of the Search Handler on its own: one '/websearch cats'
\* update has been dispatched, and the search answers with any result list.
RenderOutcomes == { [ok |-> TRUE, data |-> [items |-> l]] : l \in ItemLists }

InitRender ==
  /\ variant \in Variants
  /\ \E c \in Chats :
       LET upd == [kind |-> "text", chat |-> c, text |-> Defined("/websearch cats"),
                   phone |-> UNDEFINED]
       IN  /\ updates = <<Delivered(variant, upd, <<>>)>>
           /\ tasks = Dispatch(variant, upd, 1, TRUE)
  /\ users = <<>>
  /\ turns = {}

NextRender == \E i \in 1..Len(tasks) : SearchFetchWith(i, RenderOutcomes, Accepted)

SpecRender == InitRender /\ [][NextRender]_vars

\* The file paths given to the MIME inference check: every stem with every
\* suffix.
FilePaths ==
  { stem \o suffix :
      stem \in {"", "a", "photos/file_7", "b.png", "c.webp", "d.jpg"},
      suffix \in {".png", ".webp", ".jpg", ".jpeg", ".PNG", "png", "webp", ""} }

\* The MIME inference of the Image Handler on its own: one photo update has
\* been dispatched, and getFile() answers with any of the paths.
MimeOutcomes == { [ok |-> TRUE, file |-> [file_path |-> p]] : p \in FilePaths }

InitMime ==
  /\ variant \in Variants
  /\ \E c \in Chats :
       LET upd == [kind |-> "photo", chat |-> c, text |-> UNDEFINED,
                   phone |-> UNDEFINED]
       IN  /\ updates = <<Delivered(variant, upd, <<>>)>>
           /\ tasks = Dispatch(variant, upd, 1, TRUE)
  /\ users = <<>>
  /\ turns = {}

NextMime == \E i \in 1..Len(tasks) : ImageGetFileWith(i, MimeOutcomes, Accepted)

SpecMime == InitMime /\ [][NextMime]_vars

----------------------------------------------------------------------------
\* Vocabulary of the properties.

\* The five handlers of the Update Router.
CoreHandlers == {"Registration", "Contact", "Search", "Image", "Chat"}

\* The three handlers that answer with generated text.
ReplyHandlers == {"Chat", "Search", "Image"}

Updates == 1..Len(updates)

Tasks == 1..Len(tasks)

\* The invocations update u started.
TasksOf(u) == { i \in Tasks : tasks[i].upd = u }

Finished(i) == tasks[i].pc \in {"done", "rejected"}

RECURSIVE SumOver(_, _)
SumOver(S, f) ==
  IF S = {} THEN 0
  ELSE LET x == CHOOSE y \in S : TRUE IN f[x] + SumOver(S \ {x}, f)

\* The number of sendMessage() calls made for update u.
SentFor(u) == SumOver(TasksOf(u), [i \in TasksOf(u) |-> Len(tasks[i].sent)])

\* The kinds of the messages sent for update u.
KindsFor(u) ==
  UNION { { tasks[i].sent[k].kind : k \in 1..Len(tasks[i].sent) } :
          i \in TasksOf(u) }

\* The User documents and the turns that invocation i wrote.
UsersBy(i) == { k \in 1..Len(users) : users[k].by = i }

TurnsBy(i) == { t \in turns : t.by = i }

\* Invocation t has made one sendMessage() call, of this kind and text, to
\* its chat.
SentOnly(t, kind, text) ==
  /\ Len(t.sent) = 1
  /\ t.sent[1].to = t.chat.id
  /\ t.sent[1].kind = kind
  /\ t.sent[1].text = text

\* The AI call of invocation i failed: a network error, a malformed response
\* or an empty completion.
AIFailed(i) == tasks[i].ai = "failed"

----------------------------------------------------------------------------
\* C1: no update starts two of the handlers Registration, Contact, Search,
\* Image and Chat.
C1_OneHandlerPerUpdate ==
  \A u \in Updates :
    Cardinality({ i \in TasksOf(u) : tasks[i].handler \in CoreHandlers }) <= 1

\* C2: an update routed to the Chat, Search or Image handler never has more
\* than one outbound message, and once its handlers have finished it has
\* exactly one, the success reply or the fixed error message.
C2_ExactlyOneOutcome ==
  \A u \in Updates :
    (\E i \in TasksOf(u) : tasks[i].handler \in ReplyHandlers) =>
      /\ SentFor(u) <= 1
      /\ (\A i \in TasksOf(u) : Finished(i)) =>
           /\ SentFor(u) = 1
           /\ KindsFor(u) \subseteq {"reply", "error"}

\* C3: a finished Chat Handler invocation whose AI call succeeded has stored
\* exactly one turn, holding the original text and the model's output; one
\* whose AI call failed has stored none and has sent the fixed apology.
C3_ChatTurnPerSuccess ==
  \A i \in Tasks :
    (tasks[i].handler = "Chat" /\ Finished(i)) =>
      /\ tasks[i].ai = "text" =>
           TurnsBy(i) = {NewChat(tasks[i].chat.id, updates[tasks[i].upd].msg.text,
                                 tasks[i].aiText[1], i)}
      /\ AIFailed(i) =>
           /\ TurnsBy(i) = {}
           /\ SentOnly(tasks[i], "error", ErrorText(variant, "Chat"))

\* C4: a finished Chat, Search or Image invocation whose AI call succeeded
\* has sent the generated reply and no error message, whether or not the
\* turn was stored.
C4_ReplyDespiteWriteFailure ==
  \A i \in Tasks :
    (tasks[i].handler \in ReplyHandlers /\ Finished(i) /\ tasks[i].ai = "text") =>
      /\ Len(tasks[i].sent) = 1
      /\ tasks[i].sent[1].kind = "reply"

\* The first update of its chat.
FirstOfChat(u) ==
  \A w \in 1..(u - 1) : updates[w].msg.chat.id # updates[u].msg.chat.id

\* The User documents written while handling update u.
UsersFor(u) == UNION { UsersBy(i) : i \in TasksOf(u) }

\* C5 as stated: once handled, the first update of a chat without a User
\* record has made exactly one record and sent a welcome, whatever its
\* category; an update of a chat that had a record has made none.
C5_FirstUpdateRegisters ==
  \A u \in Updates :
    /\ (~updates[u].known /\ FirstOfChat(u) /\ \A i \in TasksOf(u) : Finished(i)) =>
         /\ Cardinality(UsersFor(u)) = 1
         /\ "welcome" \in KindsFor(u)
    /\ updates[u].known => UsersFor(u) = {}

\* C5 as amended: a User record is written only by the Registration Handler
\* of a '/start' update whose chat had no record when the update was
\* delivered; it carries that chat's id and is followed at once by the
\* welcome and the contact request; no update writes two records, and one
\* that starts no Registration Handler, or whose chat had a record, writes
\* none.
C5_OnlyStartRegisters ==
  /\ \A k \in 1..Len(users) :
       LET i == users[k].by
           u == tasks[i].upd
       IN  /\ tasks[i].handler = "Registration"
           /\ RegistrationRuns(updates[u].msg.text)
           /\ ~updates[u].known
           /\ users[k].chat_id = updates[u].msg.chat.id
           /\ tasks[i].pc = "done"
           /\ Len(tasks[i].sent) = 2
           /\ tasks[i].sent[1].kind = "welcome"
           /\ tasks[i].sent[2].kind = "contactRequest"
  /\ \A u \in Updates :
       /\ Cardinality(UsersFor(u)) <= 1
       /\ updates[u].known => UsersFor(u) = {}

\* C5 witness: a '/start' update has registered its chat, and a later update
\* of that chat, delivered when the record was there, has run its own
\* Registration Handler to the end without writing a record.
C5_Witness ==
  \E u \in Updates, w \in Updates :
    /\ u < w
    /\ updates[u].msg.chat.id = updates[w].msg.chat.id
    /\ Cardinality(UsersFor(u)) = 1
    /\ updates[w].known
    /\ \E i \in TasksOf(w) :
         tasks[i].handler = "Registration" /\ tasks[i].pc = "done"

\* C6: no two User records share a chat_id.
C6_UniqueChatId ==
  \A k \in 1..Len(users), m \in 1..Len(users) :
    users[k].chat_id = users[m].chat_id => k = m

\* C7: the step that completes a contact update leaves the submitted number
\* stored for the chat and sends the confirmation, whatever the store held.
C7_ContactStoresNumber ==
  [][\A i \in Tasks :
       (tasks[i].handler = "Contact" /\ tasks[i].pc = "updateOne"
          /\ tasks'[i].pc = "done") =>
         /\ \E k \in 1..Len(users') :
              /\ users'[k].chat_id = tasks[i].chat.id
              /\ users'[k].phone_number = tasks[i].arg
         /\ SentOnly(tasks'[i], "confirm", ConfirmText(variant))]_vars

\* C8: a failed lookup or create never leaves the Registration Handler as a
\* rejection, and a finished Registration Handler has sent a welcome.
C8_RegistrationFailureContained ==
  \A i \in Tasks :
    tasks[i].handler = "Registration" =>
      /\ tasks[i].pc # "rejected"
      /\ tasks[i].pc = "done" =>
           \E k \in 1..Len(tasks[i].sent) :
             tasks[i].sent[k].kind \in {"welcome", "welcomeBack"}

\* C9: no failure leaves a handler: no listener's promise rejects and no
\* sendMessage() rejection goes unhandled.
C9_NoFailureEscapes == ~Unhandled

\* C10: a finished Search Handler invocation whose search returned nothing
\* or whose summary failed or was empty has stored no turn and has sent the
\* fixed error message only.
C10_SearchFailureAborts ==
  \A i \in Tasks :
    (tasks[i].handler = "Search" /\ Finished(i)
       /\ (tasks[i].results = "" \/ AIFailed(i))) =>
      /\ TurnsBy(i) = {}
      /\ SentOnly(tasks[i], "error", "Error fetching search results.")

\* The smaller of two numbers.
Least(a, b) == IF a < b THEN a ELSE b

RECURSIVE Block(_, _)
\* The first n entries of a result list, each as title, newline, link, each
\* but the first after one blank line.
Block(items, n) ==
  IF n = 0 THEN ""
  ELSE IF n = 1 THEN items[1].title \o "\n" \o items[1].link
  ELSE Block(items, n - 1) \o "\n\n"
         \o items[n].title \o "\n" \o items[n].link

\* C11: the results block the Search Handler has rendered from a result list
\* holds its first min(3, length) entries in the order returned, each as
\* title, newline, link, with one blank line between consecutive entries.
C11_RenderedBlock ==
  \A i \in Tasks :
    (tasks[i].handler = "Search" /\ tasks[i].pc = "generate") =>
      LET n == Least(3, Len(tasks[i].items))
      IN  /\ tasks[i].results = Block(tasks[i].items, n)
          /\ n > 0 =>
               Cardinality(Occurrences(tasks[i].results, "\n\n")) = n - 1

\* C11 witness: a list of four results has been rendered, as three entries.
C11_Witness ==
  \E i \in Tasks :
    /\ tasks[i].handler = "Search" /\ tasks[i].pc = "generate"
    /\ Len(tasks[i].items) = 4
    /\ Cardinality(Occurrences(tasks[i].results, "\n\n")) = 2

\* C12 as stated: the MIME type the Image Handler has inferred is image/png for a path
\* ending in .png, image/webp for one ending in .webp, image/jpeg otherwise.
C12_MimeBySuffix ==
  \A i \in Tasks :
    (tasks[i].handler = "Image" /\ tasks[i].pc = "download") =>
      tasks[i].mime[1] =
        IF endsWith(tasks[i].path[1], ".png") THEN "image/png"
        ELSE IF endsWith(tasks[i].path[1], ".webp") THEN "image/webp"
        ELSE "image/jpeg"

\* The last n characters of a path (the whole path when it is shorter).
Suffix(path, n) ==
  SubSeq(path, IF Len(path) > n THEN Len(path) - n + 1 ELSE 1, Len(path))

\* C12 as amended: in the polling variant the inferred type is image/png for
\* a path ending in .png, image/webp for one ending in .webp and image/jpeg
\* otherwise; in the webhook variant it is image/png for a path ending in
\* .png and image/jpeg for every other path, .webp included.
C12_MimeBySuffixPerVariant ==
  \A i \in Tasks :
    (tasks[i].handler = "Image" /\ tasks[i].pc = "download") =>
      /\ Suffix(tasks[i].path[1], 4) = ".png" <=> tasks[i].mime[1] = "image/png"
      /\ (variant = "polling" /\ Suffix(tasks[i].path[1], 5) = ".webp")
           <=> tasks[i].mime[1] = "image/webp"
      /\ tasks[i].mime[1] \in {"image/png", "image/webp", "image/jpeg"}

\* C12 witness: the webhook variant has inferred the type of a .webp path,
\* as image/jpeg.
C12_Witness ==
  \E i \in Tasks :
    /\ tasks[i].handler = "Image" /\ tasks[i].pc = "download"
    /\ Suffix(tasks[i].path[1], 5) = ".webp"
    /\ variant = "webhook"
    /\ tasks[i].mime[1] = "image/jpeg"

\* C13: every stored turn was written by an invocation whose AI call had
\* returned a generated text, and its bot_response is that text.
C13_TurnAfterGeneration ==
  \A t \in turns :
    /\ tasks[t.by].ai = "text"
    /\ t.bot_response = tasks[t.by].aiText[1]

\* C14: an update with no text, contact or photo, and a '/websearch' with no
\* argument, start no handler (and so send nothing and write nothing).
C14_UnroutedIgnored ==
  \A u \in Updates :
    (updates[u].msg.kind = "other" \/ updates[u].msg.text = Defined("/websearch")) =>
      /\ TasksOf(u) = {}
      /\ UsersFor(u) = {}
      /\ \A t \in turns : tasks[t.by].upd # u

\* The messages sent for update u, handler by handler in dispatch order.
RECURSIVE SentUpTo(_, _)
SentUpTo(u, n) ==
  IF n = 0 THEN <<>>
  ELSE SentUpTo(u, n - 1)
         \o (IF tasks[n].upd = u THEN tasks[n].sent ELSE <<>>)

KindSeq(msgs) == [k \in 1..Len(msgs) |-> msgs[k].kind]

\* C15: once handled, a '/start' update of a chat that had no User record
\* has created one record and sent exactly the welcome and then the contact
\* request; one of a chat that had a record has created none and sent
\* exactly one welcome-back message.
C15_StartScenario ==
  \A u \in Updates :
    (updates[u].msg.text = Defined("/start") /\ \A i \in TasksOf(u) : Finished(i)) =>
      IF ~updates[u].known
      THEN /\ Cardinality(UsersFor(u)) = 1
           /\ KindSeq(SentUpTo(u, Len(tasks))) = <<"welcome", "contactRequest">>
      ELSE /\ UsersFor(u) = {}
           /\ KindSeq(SentUpTo(u, Len(tasks))) = <<"welcomeBack">>

\* The next step of invocation i, whichever it is.
StepOf(i) ==
  \/ RegistrationLookup(i)
  \/ RegistrationSave(i)
  \/ ContactUpdate(i)
  \/ SearchFetch(i)
  \/ ImageGetFile(i)
  \/ ImageDownload(i)
  \/ Generate(i)
  \/ SaveTurn(i)

\* C16: whatever calls are outstanding, every unfinished invocation goes on
\* as soon as its own call returns, and the next update can be dispatched:
\* no invocation waits for another, so a call that never returns holds back
\* its own invocation only.
C16_NotSerialized ==
  /\ \A i \in Tasks : ~Finished(i) => ENABLED StepOf(i)
  /\ Len(updates) < MaxUpdates => ENABLED Deliver

\* C16 witness: the invocation of an earlier update is still suspended on its
\* call while a later update (of the same chat) has got its reply.
C16_Witness ==
  \E i \in Tasks, j \in Tasks :
    /\ tasks[i].upd < tasks[j].upd
    /\ tasks[i].chat.id = tasks[j].chat.id
    /\ ~Finished(i)
    /\ tasks[j].pc = "done"
    /\ Len(tasks[j].sent) = 1
    /\ tasks[j].sent[1].kind = "reply"

\* C17: in the webhook variant every delivered request has been answered
\* with status 200 exactly once, whatever its handlers have done since.
C17_AckedOnce ==
  variant = "webhook" => \A u \in Updates : updates[u].responses = <<200>>

\* C17 witness: a webhook request has its 200 while one of its handlers is
\* still waiting for its first external call and another has failed.
C17_Witness ==
  /\ variant = "webhook"
  /\ \E u \in Updates :
       /\ updates[u].responses = <<200>>
       /\ \E i \in TasksOf(u) : tasks[i].pc = "generate"
       /\ \E i \in TasksOf(u) : tasks[i].pc = "rejected"

\* C18: no step removes or changes a stored turn, and no step removes a User
\* record or changes any of its fields but phone_number.
C18_StoreOnlyGrows ==
  [][/\ turns \subseteq turns'
     /\ Len(users) <= Len(users')
     /\ \A k \in 1..Len(users) :
          users'[k] = [users[k] EXCEPT !.phone_number = users'[k].phone_number]
    ]_vars

\* C18 witness: the store holds a turn and a User record whose phone number
\* has been set.
C18_Witness ==
  /\ turns # {}
  /\ \E k \in 1..Len(users) : users[k].phone_number # UNDEFINED

\* The User records and the turns of the chats other than c.
OtherUsers(us, c) == SelectSeq(us, LAMBDA r : r.chat_id # c)

OtherTurns(ts, c) == { t \in ts : t.chat_id # c }

\* C20: the step of an invocation for chat c leaves the User records and the
\* turns of every other chat as they were, adds only records and turns of
\* chat c, and sends only to c; delivering an update writes nothing.
C20_OnlyOwnChat ==
  [][/\ \A i \in Tasks :
          tasks'[i] # tasks[i] =>
            LET c == updates[tasks[i].upd].msg.chat.id
            IN  /\ OtherUsers(users', c) = OtherUsers(users, c)
                /\ OtherTurns(turns', c) = OtherTurns(turns, c)
                /\ \A k \in 1..Len(tasks'[i].sent) : tasks'[i].sent[k].to = c
     /\ Len(tasks') > Len(tasks) =>
          /\ users' = users
          /\ turns' = turns
          /\ \A i \in (Len(tasks) + 1)..Len(tasks') :
               \A k \in 1..Len(tasks'[i].sent) :
                 tasks'[i].sent[k].to = updates'[tasks'[i].upd].msg.chat.id
    ]_vars

\* C20 witness: chat 2 has the only User record, and a contact update of
\* chat 1 has been handled to the end without touching it.
C20_Witness ==
  /\ Len(users) = 1
  /\ users[1].chat_id = 2
  /\ users[1].phone_number = UNDEFINED
  /\ \E i \in Tasks :
       /\ tasks[i].handler = "Contact"
       /\ tasks[i].chat.id = 1
       /\ tasks[i].pc = "done"

\* The success replies sent so far, each with the invocation that sent it.
Replies ==
  { <<i, k>> \in Tasks \X (1..3) :
      k <= Len(tasks[i].sent) /\ tasks[i].sent[k].kind = "reply" }

\* C19: every success reply sent has a stored turn of the same chat whose
\* bot_response is the text the reply carries, and there are no more success
\* replies than stored turns.
C19_ReplyAfterWrite ==
  /\ \A r \in Replies :
       LET t == tasks[r[1]]
       IN  \E turn \in turns :
             /\ turn.chat_id = t.sent[r[2]].to
             /\ t.sent[r[2]].text =
                  ReplyText(variant, t.handler, t.results, turn.bot_response)
  /\ Cardinality(Replies) <= Cardinality(turns)

\* C19 witness: the Chat, the Search and the Image handler have each sent a
\* success reply.
C19_Witness ==
  \A h \in ReplyHandlers : \E r \in Replies : tasks[r[1]].handler = h

====
